---- MODULE Spec2Model ----
(***************************************************************************)
(* Model of the Journey -> Day One importer (src/src/j2d/j2d.py).          *)
(*                                                                         *)
(* One run of Importer.run: the export directory holds a sequence of raw   *)
(* entries (files), each is loaded and validated (validate_journey_entry), *)
(* the validated entries are materialised (list(entries)), each is handed  *)
(* to the dayone2 command-line tool (import_one_entry) and the result is   *)
(* printed (print_result).                                                 *)
(*                                                                         *)
(* Representation of Python values:                                        *)
(*   Optional[T]  : <<>> is None, <<v>> is the value v                     *)
(*   float        : [k |-> "fin" | "nan" | "inf", v |-> Int]               *)
(*   str that the code inspects (tags, text, stdout): a sequence of        *)
(*                  pieces; a whitespace character is always one piece      *)
(*   other str    : a TLA+ string                                          *)
(***************************************************************************)
EXTENDS Integers, Sequences, FiniteSets, TLC

VARIABLES
    files,             \* the export directory: the raw entries, in traversal order
    loaded,            \* number of files the lazy loader/validator has consumed
    flat_entries,      \* the list of validated entries being materialised
    data,              \* self.data: ImportManyResult
    imported_entries,  \* the entries import_journey_entries has yielded
    tool_log,          \* one record per subprocess.run call, in call order
    pc,                \* position of run(): validating, importing, done, aborted
    report             \* what print_result has logged (<<>> before it runs)

vars == <<files, loaded, flat_entries, data, imported_entries, tool_log, pc, report>>

---------------------------------------------------------------------------
\* Bounds of the model

MaxEntries == 3
MaxPhotos == 2

---------------------------------------------------------------------------
\* Python values

None == <<>>
Some(v) == <<v>>

Fin(v) == [k |-> "fin", v |-> v]
NaN == [k |-> "nan", v |-> 0]
PosInf == [k |-> "inf", v |-> 1]
NegInf == [k |-> "inf", v |-> -1]

\* sys.float_info.max, the source format's "no location" value; any finite
\* number larger than every coordinate of the model stands for it
float_info_max == 999999

isfinite(f) == f.k = "fin"

fabs(f) ==
    IF f.k = "fin" THEN Fin(IF f.v < 0 THEN -f.v ELSE f.v)
    ELSE IF f.k = "inf" THEN PosInf
    ELSE f

\* f <= n for a float f and a number n: false for nan and +inf
float_le(f, n) == f.k = "fin" /\ f.v <= n

\* f != g on floats: nan differs from everything, itself included
float_ne(f, g) == f.k = "nan" \/ g.k = "nan" \/ f # g

\* bool(f) for an Optional[float]: None and 0.0 are falsy, everything else truthy
truthy(opt) == opt # None /\ ~(opt[1].k = "fin" /\ opt[1].v = 0)

\* str(f) for a float
float_str(f) ==
    IF f.k = "fin" THEN ToString(f.v) \o ".0"
    ELSE IF f.k = "nan" THEN "nan"
    ELSE IF f.v > 0 THEN "inf" ELSE "-inf"

\* "".join(pieces)
RECURSIVE Join(_)
Join(s) == IF s = <<>> THEN "" ELSE Head(s) \o Join(Tail(s))

\* the characters the regular expression class \s matches
IsSpace(c) == c \in {" ", "\t", "\n"}

---------------------------------------------------------------------------
\* The host and the export directory

\* Importer.src_directory and Importer.target_journal_name
src_directory == "/export"
target_journal_name == "Journal"

\* the regular files and the directories below src_directory
RegularFiles == {"/export/a.jpg", "/export/b.mp3"}
Directories == {"/export/album"}

exists(p) == p \in RegularFiles \cup Directories
isfile(p) == p \in RegularFiles

\* tzlocal.get_localzone().zone: the host's local zone
get_localzone == "Europe/Paris"

\* the zone names pytz recognises (its lookup ignores case) and their canonical form
CanonicalZone ==
    ("Asia/Tokyo" :> "Asia/Tokyo") @@ ("asia/tokyo" :> "Asia/Tokyo")
        @@ ("Europe/Paris" :> "Europe/Paris")

\* offset from UTC of each zone, in hours (winter time)
UtcOffsetHours == ("Asia/Tokyo" :> 9) @@ ("Europe/Paris" :> 1)

\* pytz.timezone(name).zone, or None where it raises UnknownTimeZoneError
tz(name) == IF name \in DOMAIN CanonicalZone THEN Some(CanonicalZone[name]) ELSE None

\* the instants (seconds since the epoch) the host's clock shows during a run
ClockSeconds == {45296, 86399}

\* epoch milliseconds for which datetime.fromtimestamp raises (year outside
\* 1..9999); the value stands for any such input
OutOfRangeMillis == {2000000000}

---------------------------------------------------------------------------
\* Formatting of timestamps

TwoDigits(n) == IF n < 10 THEN "0" \o ToString(n) ELSE ToString(n)

\* %Y-%m-%d of a day number (days since 1970-01-01), for December 1969 and
\* January 1970
DateString(day) ==
    IF day >= 0 THEN "1970-01-" \o TwoDigits(day + 1)
    ELSE "1969-12-" \o TwoDigits(32 + day)

\* dt.strftime("%Y-%m-%d %I:%M:%S %p") of the wall-clock time that is
\* `wall` seconds after 1970-01-01 00:00:00
strftime(wall) ==
    LET day == wall \div 86400
        sod == wall % 86400
        hour == sod \div 3600
        minute == (sod % 3600) \div 60
        second == sod % 60
        hour12 == IF hour % 12 = 0 THEN 12 ELSE hour % 12
    IN  DateString(day) \o " " \o TwoDigits(hour12) \o ":" \o TwoDigits(minute)
            \o ":" \o TwoDigits(second) \o " " \o (IF hour < 12 THEN "AM" ELSE "PM")

\* the wall clock of zone `zone` at the instant `seconds`
wall_clock(seconds, zone) == seconds + UtcOffsetHours[zone] * 3600

\* datetime.fromtimestamp(seconds): no zone is passed, so the result is the
\* naive wall-clock time of the host's local zone
fromtimestamp(seconds) == wall_clock(seconds, get_localzone)

\* datetime.now(tz(timezone))
datetime_now(now, timezone) == wall_clock(now, timezone)

---------------------------------------------------------------------------
\* validate_journey_entry, field by field

resolve_timezone(raw) ==
    LET named == IF raw.timezone # "" THEN tz(raw.timezone) ELSE None
        timezone == IF named # None THEN named[1] ELSE ""
    IN  IF timezone = "" THEN get_localzone ELSE timezone

resolve_timestamp(raw, timezone, now) ==
    LET timestamp ==
            IF raw.date_journal # None /\ raw.date_journal[1] \notin OutOfRangeMillis
            THEN strftime(fromtimestamp(raw.date_journal[1] \div 1000))
            ELSE ""
    IN  IF timestamp = "" THEN strftime(datetime_now(now, timezone)) ELSE timestamp

\* os.path.abspath(os.path.join(self.src_directory, path)) of a relative path
abs_path(path) == src_directory \o "/" \o path

\* the path only has to exist
is_attachment_exists_only(path) == exists(abs_path(path))

is_attachment(path) == exists(abs_path(path)) /\ isfile(abs_path(path))

\* the photos list built by the loop over raw.photos
RECURSIVE resolve_photos(_)
resolve_photos(paths) ==
    IF paths = <<>> THEN <<>>
    ELSE (IF is_attachment(Head(paths)) THEN <<abs_path(Head(paths))>> ELSE <<>>)
            \o resolve_photos(Tail(paths))

\* what the same loop appends to self.data.skipped_attachment_paths
RECURSIVE missing_photos(_, _)
missing_photos(paths, source_path) ==
    IF paths = <<>> THEN <<>>
    ELSE (IF is_attachment(Head(paths)) THEN <<>> ELSE <<source_path>>)
            \o missing_photos(Tail(paths), source_path)

\* re.sub(r"\s+", r"\\\g<0>", raw): every maximal run of whitespace is
\* replaced by a backslash followed by the run itself
RECURSIVE escape_from(_, _)
escape_from(raw, i) ==
    IF i > Len(raw) THEN <<>>
    ELSE (IF IsSpace(raw[i]) /\ (i = 1 \/ ~IsSpace(raw[i - 1]))
          THEN <<"\\", raw[i]>> ELSE <<raw[i]>>) \o escape_from(raw, i + 1)

escape_tag(raw) == escape_from(raw, 1)

\* tags.extend(map(self.escape_tag, raw.tags))
escape_tags(tags) == [i \in 1..Len(tags) |-> escape_tag(tags[i])]

\* the pair is kept as soon as one of the two coordinates is valid
validate_coordinates_either(raw_lat, raw_lon) ==
    IF raw_lat # None /\ raw_lon # None
    THEN LET lat == raw_lat[1]
             lon == raw_lon[1]
             is_lat_valid == /\ isfinite(lat)
                             /\ float_le(fabs(lat), 90)
                             /\ float_ne(lat, Fin(float_info_max))
             is_lon_valid == /\ isfinite(lon)
                             /\ float_le(fabs(lon), 180)
                             /\ float_ne(lon, Fin(float_info_max))
         IN  IF is_lat_valid \/ is_lon_valid
             THEN [lat |-> raw_lat, lon |-> raw_lon]
             ELSE [lat |-> None, lon |-> None]
    ELSE [lat |-> None, lon |-> None]

\* the lat/lon pair of the validated entry
validate_coordinates(raw_lat, raw_lon) ==
    IF raw_lat # None /\ raw_lon # None
    THEN LET lat == raw_lat[1]
             lon == raw_lon[1]
             is_lat_valid == /\ isfinite(lat)
                             /\ float_le(fabs(lat), 90)
                             /\ float_ne(lat, Fin(float_info_max))
             is_lon_valid == /\ isfinite(lon)
                             /\ float_le(fabs(lon), 180)
                             /\ float_ne(lon, Fin(float_info_max))
         IN  IF is_lat_valid /\ is_lon_valid
             THEN [lat |-> raw_lat, lon |-> raw_lon]
             ELSE [lat |-> None, lon |-> None]
    ELSE [lat |-> None, lon |-> None]

\* the pieces of a text that are HTML elements
MarkupPieces == {"<p>", "</p>", "<br>"}

\* bool(soup.find()): at least one HTML element can be found
is_html(text) == \E i \in 1..Len(text) : text[i] \in MarkupPieces

IsContent(piece) == piece \notin MarkupPieces

\* markdownify(text): the elements are rendered away, their content stays
markdownify(text) == SelectSeq(text, IsContent)

convert_html_to_markdown(original_text) ==
    IF is_html(original_text) THEN markdownify(original_text) ELSE original_text

\* text.find("dayone-moment:") != -1
has_dayone_moment(text) == \E i \in 1..Len(text) : text[i] = "dayone-moment:"

\* the marker only counts for an entry without attachments
should_skip_marker_without_photos(text, photos) ==
    LET skip0 == FALSE
        skip1 == IF text = <<>> /\ Len(photos) = 0 THEN TRUE ELSE skip0
        skip2 == IF has_dayone_moment(text) /\ Len(photos) = 0 THEN TRUE ELSE skip1
    IN  skip2

\* an entry without text is skipped even when it has attachments
should_skip_without_text(text, photos) ==
    LET skip0 == FALSE
        skip1 == IF text = <<>> \/ Len(photos) = 0 THEN TRUE ELSE skip0
        skip2 == IF has_dayone_moment(text) THEN TRUE ELSE skip1
    IN  skip2

\* the value of `skip` after the three checks on the converted text
should_skip(text, photos) ==
    LET skip0 == FALSE
        skip1 == IF text = <<>> /\ Len(photos) = 0 THEN TRUE ELSE skip0
        skip2 == IF has_dayone_moment(text) THEN TRUE ELSE skip1
    IN  skip2

\* the skip is recorded but the entry is returned all the same
validation_outcome_returns_skipped(entry, d, skip) ==
    [entry |-> Some(entry),
     data |-> IF skip THEN [d EXCEPT !.skipped_entry_paths = Append(@, entry.source_path)]
              ELSE d]

\* the end of validate_journey_entry: the entry is returned, or its source
\* path is appended to the skipped entries and None is returned
validation_outcome(entry, d, skip) ==
    IF ~skip
    THEN [entry |-> Some(entry), data |-> d]
    ELSE [entry |-> None,
          data |-> [d EXCEPT !.skipped_entry_paths = Append(@, entry.source_path)]]

\* validate_journey_entry(raw) with self.data = d and the clock at `now`:
\* the entry it returns (None when skipped) and self.data afterwards
validate_journey_entry(raw, d, now) ==
    LET timezone == resolve_timezone(raw)
        timestamp == resolve_timestamp(raw, timezone, now)
        photos == resolve_photos(raw.photos)
        d1 == [d EXCEPT !.skipped_attachment_paths =
                            @ \o missing_photos(raw.photos, raw.path)]
        tags == IF Len(raw.tags) > 0 THEN escape_tags(raw.tags) ELSE <<>>
        coords == validate_coordinates(raw.lat, raw.lon)
        text == convert_html_to_markdown(raw.text)
    IN  validation_outcome([foreign_id |-> raw.id,
                            source_path |-> raw.path,
                            text |-> text,
                            photos |-> photos,
                            tags |-> tags,
                            lat |-> coords.lat,
                            lon |-> coords.lon,
                            timestamp |-> timestamp,
                            timezone |-> timezone],
                           d1, should_skip(text, photos))

---------------------------------------------------------------------------
\* The import executor

IsHex(c) == c \in {"A", "B", "C", "D", "E", "F",
                   "0", "1", "2", "3", "4", "5", "6", "7", "8", "9"}

\* re.search(r"([A-F0-9]+)\s*$", output): the leftmost run of hex characters
\* that only whitespace separates from the end of the output
parse_id_from_output(output) ==
    LET n == Len(output)
        last == CHOOSE j \in 0..n :
                    /\ \A k \in (j + 1)..n : IsSpace(output[k])
                    /\ j = 0 \/ ~IsSpace(output[j])
        starts == {i \in 1..last : \A k \in i..last : IsHex(output[k])}
        first == CHOOSE i \in starts : \A j \in starts : i <= j
    IN  IF starts = {} THEN "" ELSE Join(SubSeq(output, first, last))

build_dayone_args(entry) ==
    LET args1 == <<"dayone2", "-j", target_journal_name>>
        args2 == args1 \o <<"-d", entry.timestamp>>
        args3 == args2 \o <<"-z", entry.timezone>>
        args4 == IF Len(entry.tags) > 0
                 THEN args3 \o <<"-t">>
                        \o [i \in 1..Len(entry.tags) |-> Join(entry.tags[i])]
                 ELSE args3
        args5 == IF Len(entry.photos) > 0
                 THEN args4 \o <<"-p">> \o entry.photos
                 ELSE args4
        args6 == IF truthy(entry.lat) /\ truthy(entry.lon)
                 THEN args5 \o <<"--coordinate", float_str(entry.lat[1]),
                                 float_str(entry.lon[1])>>
                 ELSE args5
    IN  args6 \o <<"--", "new">>

\* import_one_entry when subprocess.run returned the completed process p:
\* the pair (id, err)
import_one_entry(entry, p) ==
    IF p.returncode = 0
    THEN [id |-> Some(parse_id_from_output(p.stdout)), err |-> None]
    ELSE [id |-> None, err |-> Some(p.stderr)]

\* the truth value of `err`: None and the empty string are falsy
is_error(err) == err # None /\ err # Some("")

\* the loop yields the entry on the failure branch too
yielded_on_failure(entry, err) == <<entry>>

\* what one iteration of the loop of import_journey_entries yields
yielded(entry, err) == IF ~is_error(err) THEN <<entry>> ELSE <<>>

\* self.data after one iteration of the loop of import_journey_entries
after_import(d, entry, err) ==
    LET d1 == [d EXCEPT !.attempted_entry_count = @ + 1]
    IN  IF ~is_error(err) THEN d1
        ELSE [d1 EXCEPT !.failed_entry_paths = Append(@, entry.source_path)]

\* the summary line of print_result
summary_line(succeeded_count, failed_count, skipped_count) ==
    ToString(succeeded_count) \o " succeeded, " \o ToString(failed_count)
        \o " failed, " \o ToString(skipped_count) \o " skipped"

\* the skipped attachments are counted as skipped too
print_result_counting_attachments(imported, d) ==
    [skipped_attachments |-> d.skipped_attachment_paths,
     skipped_entries |-> d.skipped_entry_paths,
     failed_entries |-> d.failed_entry_paths,
     summary |-> summary_line(Len(imported), Len(d.failed_entry_paths),
                              Len(d.skipped_entry_paths)
                                  + Len(d.skipped_attachment_paths))]

\* what print_result logs
print_result(imported, d) ==
    [skipped_attachments |-> d.skipped_attachment_paths,
     skipped_entries |-> d.skipped_entry_paths,
     failed_entries |-> d.failed_entry_paths,
     summary |-> summary_line(Len(imported), Len(d.failed_entry_paths),
                              Len(d.skipped_entry_paths))]

---------------------------------------------------------------------------
\* The inputs of the model

SeqsUpTo(S, n) == UNION {[1..m -> S] : m \in 0..n}

Timezones == {"", "asia/tokyo", "Mars/Phobos"}
DateJournals == {None, Some(0), Some(2000000000)}
Texts == {<<>>, <<"Hello">>, <<"<p>", "Hello", "</p>">>, <<"<p>", "</p>">>,
          <<"see", "dayone-moment:", "//1A2B">>}
Latitudes == {None, Some(Fin(0)), Some(Fin(45)), Some(Fin(-90)), Some(Fin(-91)),
              Some(Fin(float_info_max)), Some(NaN)}
Longitudes == {None, Some(Fin(0)), Some(Fin(-120)), Some(Fin(180)), Some(Fin(181)),
               Some(Fin(float_info_max)), Some(PosInf), Some(NegInf)}
TagLists == {<<>>, <<<<"work">>>>, <<<<"New", " ", "York">>, <<"a", " ", "\t", "b">>>>}
PhotoValues == {"a.jpg", "b.mp3", "m.mp4", "album"}

\* the fields of a raw entry the validator reads: every combination of
\* timezone, timestamp, text, tags and attachments, with four coordinate pairs
EntryContents ==
    [timezone : Timezones, date_journal : DateJournals, text : Texts,
     lat : {Some(Fin(0)), Some(Fin(45))}, lon : {None, Some(Fin(-120))},
     tags : TagLists, photos : SeqsUpTo(PhotoValues, MaxPhotos)]

\* every combination of latitude and longitude, with and without text
CoordinateContents ==
    [timezone : {"asia/tokyo"}, date_journal : {Some(45296789)},
     text : {<<>>, <<"Hello">>},
     lat : Latitudes, lon : Longitudes,
     tags : {<<<<"work">>>>}, photos : {<<"a.jpg">>}]

\* the entries of a whole run: text and attachments vary
RunContents ==
    [timezone : {"asia/tokyo"}, date_journal : {Some(45296789)},
     text : {<<>>, <<"Hello">>, <<"see", "dayone-moment:", "//1A2B">>},
     lat : {Some(Fin(45))}, lon : {Some(Fin(-120))},
     tags : {<<<<"work">>>>}, photos : {<<>>, <<"a.jpg">>, <<"m.mp4">>}]

\* extract_entry_from_body for the i-th file of the export
extract_entry_from_body(body, i) ==
    [id |-> "id" \o ToString(i),
     path |-> src_directory \o "/" \o ToString(i) \o ".json",
     date_journal |-> body.date_journal,
     text |-> body.text,
     type |-> "html",
     lat |-> body.lat,
     lon |-> body.lon,
     timezone |-> body.timezone,
     address |-> "",
     tags |-> body.tags,
     photos |-> body.photos]

\* the raw entries of an export directory with the given file bodies
Export(bodies) == [i \in 1..Len(bodies) |-> extract_entry_from_body(bodies[i], i)]

\* what the dayone2 process can return
CompletedProcesses ==
    [returncode : {0, 1},
     stdout : {<<"i", "d", ":", " ", "C", "B", "1", "7", "\n">>, <<"o", "k", "\n">>},
     stderr : {"", "Error: no journal"}]

---------------------------------------------------------------------------
\* The run

InitRun ==
    /\ loaded = 0
    /\ flat_entries = <<>>
    /\ data = [failed_entry_paths |-> <<>>,
               skipped_entry_paths |-> <<>>,
               skipped_attachment_paths |-> <<>>,
               attempted_entry_count |-> 0,
               total_entry_count |-> 0]
    /\ imported_entries = <<>>
    /\ tool_log = <<>>
    /\ pc = "validating"
    /\ report = None

\* a whole export of up to MaxEntries entries
Init ==
    /\ files \in {Export(b) : b \in SeqsUpTo(RunContents, MaxEntries)}
    /\ InitRun

\* an export of one entry, over every combination of field values
InitEntry ==
    /\ files \in {Export(<<b>>) : b \in EntryContents}
    /\ InitRun

\* an export of one entry, over every combination of coordinates
InitCoordinates ==
    /\ files \in {Export(<<b>>) : b \in CoordinateContents}
    /\ InitRun

\* validate_journey_entries: the next raw entry is loaded and validated
ValidateNext ==
    /\ pc = "validating"
    /\ loaded < Len(files)
    /\ \E now \in ClockSeconds :
          LET r == validate_journey_entry(files[loaded + 1], data, now)
          IN  /\ flat_entries' = flat_entries \o r.entry
              /\ data' = r.data
    /\ loaded' = loaded + 1
    /\ UNCHANGED <<files, imported_entries, tool_log, pc, report>>

\* the import starts on the entries validated so far, the rest is dropped
StartImportEarly ==
    /\ pc = "validating"
    /\ data' = [data EXCEPT !.total_entry_count = Len(flat_entries)]
    /\ pc' = "importing"
    /\ UNCHANGED <<files, loaded, flat_entries, imported_entries, tool_log, report>>

\* import_journey_entries: list(entries) is complete, the total is fixed
StartImport ==
    /\ pc = "validating"
    /\ loaded = Len(files)
    /\ data' = [data EXCEPT !.total_entry_count = Len(flat_entries)]
    /\ pc' = "importing"
    /\ UNCHANGED <<files, loaded, flat_entries, imported_entries, tool_log, report>>

\* one iteration of the import loop in which the tool ran
ImportNext ==
    /\ pc = "importing"
    /\ data.attempted_entry_count < Len(flat_entries)
    /\ \E p \in CompletedProcesses :
          LET entry == flat_entries[data.attempted_entry_count + 1]
              res == import_one_entry(entry, p)
          IN  /\ tool_log' = Append(tool_log,
                                    [source_path |-> entry.source_path,
                                     args |-> build_dayone_args(entry),
                                     input |-> entry.text,
                                     returncode |-> Some(p.returncode),
                                     id |-> res.id,
                                     err |-> res.err])
              /\ imported_entries' = imported_entries \o yielded(entry, res.err)
              /\ data' = after_import(data, entry, res.err)
    /\ UNCHANGED <<files, loaded, flat_entries, pc, report>>

\* the OSError is taken for one more failed entry and the loop goes on
LaunchFailureRecorded ==
    /\ pc = "importing"
    /\ data.attempted_entry_count < Len(flat_entries)
    /\ LET entry == flat_entries[data.attempted_entry_count + 1]
       IN  /\ tool_log' = Append(tool_log,
                                 [source_path |-> entry.source_path,
                                  args |-> build_dayone_args(entry),
                                  input |-> entry.text,
                                  returncode |-> None,
                                  id |-> None,
                                  err |-> Some("OSError")])
           /\ data' = after_import(data, entry, Some("OSError"))
    /\ UNCHANGED <<files, loaded, flat_entries, imported_entries, pc, report>>

\* one iteration of the import loop in which subprocess.run raised OSError:
\* import_one_entry re-raises, the exception leaves the loop and run()
LaunchFailure ==
    /\ pc = "importing"
    /\ data.attempted_entry_count < Len(flat_entries)
    /\ LET entry == flat_entries[data.attempted_entry_count + 1]
       IN  tool_log' = Append(tool_log,
                              [source_path |-> entry.source_path,
                               args |-> build_dayone_args(entry),
                               input |-> entry.text,
                               returncode |-> None,
                               id |-> None,
                               err |-> None])
    /\ pc' = "aborted"
    /\ UNCHANGED <<files, loaded, flat_entries, data, imported_entries, report>>

\* print_result, once the import loop is exhausted
PrintResult ==
    /\ pc = "importing"
    /\ data.attempted_entry_count = Len(flat_entries)
    /\ report' = Some(print_result(imported_entries, data))
    /\ pc' = "done"
    /\ UNCHANGED <<files, loaded, flat_entries, data, imported_entries, tool_log>>

Next ==
    \/ ValidateNext
    \/ StartImport
    \/ ImportNext
    \/ LaunchFailure
    \/ PrintResult

Spec == Init /\ [][Next]_vars

SpecEntry == InitEntry /\ [][Next]_vars

SpecCoordinates == InitCoordinates /\ [][Next]_vars

---------------------------------------------------------------------------
\* Vocabulary of the properties

InSeq(x, s) == \E i \in 1..Len(s) : s[i] = x

Count(x, s) == Cardinality({i \in 1..Len(s) : s[i] = x})

\* the raw entries the validator has consumed so far
Validated == {files[i] : i \in 1..loaded}

\* the validated entries that came from the raw entry `raw`
EntriesOf(raw) == {i \in 1..Len(flat_entries) : flat_entries[i].source_path = raw.path}

\* the entry with this source path was yielded by the import loop
Imported(path) == \E i \in 1..Len(imported_entries) : imported_entries[i].source_path = path

\* the tool ran for the entry with this source path and exited with status 0
ExitedZero(path) ==
    \E k \in 1..Len(tool_log) :
        tool_log[k].source_path = path /\ tool_log[k].returncode = Some(0)

---------------------------------------------------------------------------
\* C1: every tool invocation is classified by its exit status alone: status
\* 0 is a success whatever stdout holds (the id may be empty), every
\* non-zero status is a failure: the entry's source path is in the failed
\* list, the entry is not among the succeeded ones, and the attempt is counted
C1_ExitStatusDecides ==
    \A k \in 1..Len(tool_log) :
        LET call == tool_log[k]
        IN  call.returncode # None =>
                /\ data.attempted_entry_count >= k
                /\ IF call.returncode = Some(0)
                   THEN /\ call.id # None
                        /\ Imported(call.source_path)
                        /\ ~InSeq(call.source_path, data.failed_entry_paths)
                   ELSE /\ InSeq(call.source_path, data.failed_entry_paths)
                        /\ ~Imported(call.source_path)

\* the raw entry a validated entry was made from
RawOf(entry) == CHOOSE raw \in Validated : raw.path = entry.source_path

\* the argument list the executor's contract prescribes for an entry
ContractArgs(entry) ==
    <<"dayone2", "-j", target_journal_name, "-d", entry.timestamp, "-z", entry.timezone>>
        \o (IF entry.tags # <<>>
            THEN <<"-t">> \o [i \in 1..Len(entry.tags) |-> Join(entry.tags[i])]
            ELSE <<>>)
        \o (IF entry.photos # <<>> THEN <<"-p">> \o entry.photos ELSE <<>>)
        \o (IF entry.lat # None /\ entry.lon # None
            THEN <<"--coordinate", float_str(entry.lat[1]), float_str(entry.lon[1])>>
            ELSE <<>>)
        \o <<"--", "new">>

\* C2: the arguments of every tool invocation are exactly dayone2, -j, -d,
\* -z, then -t with the tags iff there are tags, -p with the attachments iff
\* there are attachments, --coordinate lat lon iff both coordinates are
\* present (0 included), then -- new
C2_ArgsFollowContract ==
    \A k \in 1..Len(tool_log) : tool_log[k].args = ContractArgs(flat_entries[k])

\* a backslash stands before every whitespace character of the tag
EveryWhitespaceEscaped(tag) ==
    \A j \in 1..Len(tag) : IsSpace(tag[j]) => j > 1 /\ tag[j - 1] = "\\"

\* the tag without the backslashes that stand before a whitespace character
Unescaped(tag) ==
    LET keep == {j \in 1..Len(tag) :
                    ~(tag[j] = "\\" /\ j < Len(tag) /\ IsSpace(tag[j + 1]))}
        nth(k) == CHOOSE j \in keep : Cardinality({h \in keep : h < j}) = k - 1
    IN  [k \in 1..Cardinality(keep) |-> tag[nth(k)]]

\* C3: in every validated entry each tag is the raw tag of the same position
\* with a backslash before each of its whitespace characters (runs of
\* whitespace included), so that it splits into one token
C3_TagsEscaped ==
    \A i \in 1..Len(flat_entries) :
        LET entry == flat_entries[i]
            raw == RawOf(entry)
        IN  /\ Len(entry.tags) = Len(raw.tags)
            /\ \A t \in 1..Len(entry.tags) :
                  /\ EveryWhitespaceEscaped(entry.tags[t])
                  /\ Unescaped(entry.tags[t]) = raw.tags[t]

\* C4 as stated: every path in the failed-entry, skipped-entry or
\* skipped-attachment list belongs to an entry that was not imported
C4_ListedPathsNotImported ==
    \A path \in {files[i].path : i \in 1..Len(files)} :
        (\/ InSeq(path, data.failed_entry_paths)
         \/ InSeq(path, data.skipped_entry_paths)
         \/ InSeq(path, data.skipped_attachment_paths))
            => ~Imported(path) /\ ~ExitedZero(path)

\* C4 amended: every path in the failed-entry or skipped-entry list belongs
\* to an entry that was not imported (an entry in the skipped-attachment
\* list may have been imported without the attachment)
C4_FailedAndSkippedNotImported ==
    \A path \in {files[i].path : i \in 1..Len(files)} :
        (\/ InSeq(path, data.failed_entry_paths)
         \/ InSeq(path, data.skipped_entry_paths))
            => ~Imported(path) /\ ~ExitedZero(path)

\* a finished run with a failed entry, a skipped entry and an imported entry
\* that lost an attachment
C4_Witness ==
    /\ pc = "done"
    /\ data.failed_entry_paths # <<>>
    /\ data.skipped_entry_paths # <<>>
    /\ \E i \in 1..Len(imported_entries) :
          /\ InSeq(imported_entries[i].source_path, data.skipped_attachment_paths)
          /\ ExitedZero(imported_entries[i].source_path)

\* the tool could not be launched for some entry
LaunchFailed(log) == \E k \in 1..Len(log) : log[k].returncode = None

\* C5: when the tool cannot be launched for an entry the run aborts there:
\* that step leaves the recorded outcomes (failed, skipped, attempted,
\* succeeded) as they were, so the entry is not recorded as failed, and
\* nothing happens afterwards: no further invocation, no report
C5_LaunchFailureAborts ==
    [][/\ (LaunchFailed(tool_log') /\ ~LaunchFailed(tool_log)) =>
              /\ pc' = "aborted"
              /\ data' = data
              /\ imported_entries' = imported_entries
              /\ ~InSeq(tool_log'[Len(tool_log')].source_path, data'.failed_entry_paths)
       /\ LaunchFailed(tool_log) => UNCHANGED vars]_vars

\* the launch fails at the second of three validated entries, after the
\* first one was recorded as failed
C5_Witness ==
    /\ pc = "aborted"
    /\ Len(flat_entries) = 3
    /\ Len(tool_log) = 2
    /\ tool_log[2].returncode = None
    /\ data.failed_entry_paths = <<flat_entries[1].source_path>>
    /\ data.attempted_entry_count = 1

\* C6: for every raw entry the validator has consumed, either exactly one
\* validated entry came out of it and its path is not among the skipped
\* entries, or none came out and its path is there exactly once
C6_EntryOrSkip ==
    /\ \A raw \in Validated :
          LET out == Cardinality(EntriesOf(raw))
              skips == Count(raw.path, data.skipped_entry_paths)
          IN  (out = 1 /\ skips = 0) \/ (out = 0 /\ skips = 1)
    /\ Len(flat_entries) + Len(data.skipped_entry_paths) = loaded

\* one entry was validated and skipped, for its marker, with an attachment
C6_Witness ==
    /\ loaded = 1
    /\ flat_entries = <<>>
    /\ data.skipped_entry_paths = <<files[1].path>>
    /\ has_dayone_moment(files[1].text)
    /\ files[1].photos = <<"a.jpg">>

\* a raw coordinate that is a finite number within the limit and not the
\* sentinel
GoodCoordinate(opt, limit) ==
    /\ opt # None
    /\ opt[1].k = "fin"
    /\ opt[1].v >= -limit
    /\ opt[1].v <= limit
    /\ opt[1].v # float_info_max

\* C7: every validated entry has both coordinates or neither; it has both,
\* equal to the raw values, exactly when the raw latitude and longitude are
\* both present, finite, within 90 and 180 degrees and not the sentinel
C7_CoordinatesJointlyValid ==
    \A i \in 1..Len(flat_entries) :
        LET entry == flat_entries[i]
            raw == RawOf(entry)
        IN  /\ (entry.lat = None) <=> (entry.lon = None)
            /\ IF GoodCoordinate(raw.lat, 90) /\ GoodCoordinate(raw.lon, 180)
               THEN entry.lat = raw.lat /\ entry.lon = raw.lon
               ELSE entry.lat = None /\ entry.lon = None

\* an entry on the edge of the range keeps its coordinates
C7_Witness ==
    \E i \in 1..Len(flat_entries) :
        /\ flat_entries[i].lat = Some(Fin(-90))
        /\ flat_entries[i].lon = Some(Fin(180))
        /\ RawOf(flat_entries[i]).lat = Some(Fin(-90))

\* the zone the validator is to resolve for a raw entry
ResolvedZone(raw) ==
    IF raw.timezone \in DOMAIN CanonicalZone THEN CanonicalZone[raw.timezone]
    ELSE get_localzone

\* C8: every validated entry carries the resolved zone and a timestamp
\* rendered in that zone: the entry's instant when it is present and
\* valid, else the current time; neither is empty
C8_TimestampInResolvedZone ==
    \A i \in 1..Len(flat_entries) :
        LET entry == flat_entries[i]
            raw == RawOf(entry)
            zone == ResolvedZone(raw)
        IN  /\ entry.timezone = zone
            /\ entry.timezone # ""
            /\ entry.timestamp # ""
            /\ IF raw.date_journal # None /\ raw.date_journal[1] \notin OutOfRangeMillis
               THEN entry.timestamp =
                        strftime(raw.date_journal[1] \div 1000 + UtcOffsetHours[zone] * 3600)
               ELSE \E now \in ClockSeconds :
                        entry.timestamp = strftime(now + UtcOffsetHours[zone] * 3600)

\* the positions of the attachments of a raw entry that are regular files
ResolvedPositions(raw) ==
    {j \in 1..Len(raw.photos) : (src_directory \o "/" \o raw.photos[j]) \in RegularFiles}

\* C9: a missing attachment does not cost the entry its import: the entry's
\* path is in the skipped-attachment list iff one of its attachments is not
\* a regular file; an entry with converted text or a resolved attachment,
\* and no marker, is validated and not skipped; the validated entry holds
\* the resolved attachments, and only them, in their original order
C9_MissingAttachmentKeepsEntry ==
    \A raw \in Validated :
        LET resolved == ResolvedPositions(raw)
            nth(k) == CHOOSE j \in resolved : Cardinality({h \in resolved : h < j}) = k - 1
            text == convert_html_to_markdown(raw.text)
        IN  /\ InSeq(raw.path, data.skipped_attachment_paths)
                  <=> resolved # 1..Len(raw.photos)
            /\ ((text # <<>> \/ resolved # {}) /\ ~has_dayone_moment(text))
                  => /\ EntriesOf(raw) # {}
                     /\ ~InSeq(raw.path, data.skipped_entry_paths)
            /\ \A i \in EntriesOf(raw) :
                  /\ Len(flat_entries[i].photos) = Cardinality(resolved)
                  /\ \A k \in 1..Cardinality(resolved) :
                        flat_entries[i].photos[k] = src_directory \o "/" \o raw.photos[nth(k)]

\* an entry without text whose first attachment is missing was imported
\* with its second attachment
C9_Witness ==
    /\ pc = "done"
    /\ Len(imported_entries) = 1
    /\ files[1].text = <<>>
    /\ files[1].photos = <<"m.mp4", "b.mp3">>
    /\ imported_entries[1].photos = <<"/export/b.mp3">>
    /\ data.skipped_attachment_paths = <<files[1].path>>
    /\ data.skipped_entry_paths = <<>>

\* C10: a consumed raw entry whose converted text contains dayone-moment:
\* yields no validated entry, its path is among the skipped entries and
\* never among the failed ones, and the tool is never invoked for it
C10_DuplicateExportSkipped ==
    \A raw \in Validated :
        has_dayone_moment(convert_html_to_markdown(raw.text)) =>
            /\ EntriesOf(raw) = {}
            /\ InSeq(raw.path, data.skipped_entry_paths)
            /\ ~InSeq(raw.path, data.failed_entry_paths)
            /\ \A k \in 1..Len(tool_log) : tool_log[k].source_path # raw.path

\* a run is over in which an entry with the marker, two resolved
\* attachments, a recognised zone and valid coordinates was skipped
C10_Witness ==
    /\ pc = "done"
    /\ has_dayone_moment(files[1].text)
    /\ files[1].photos = <<"a.jpg", "b.mp3">>
    /\ files[1].timezone = "asia/tokyo"
    /\ files[1].lat = Some(Fin(45))
    /\ files[1].lon = Some(Fin(-120))
    /\ data.skipped_entry_paths = <<files[1].path>>
    /\ tool_log = <<>>

\* C11: a consumed raw entry whose converted text is empty is skipped and
\* recorded as a skipped entry when none of its attachments resolves, and
\* is validated and not skipped when at least one resolves; every validated
\* entry has text or an attachment
C11_EmptinessPolicy ==
    /\ \A raw \in Validated :
          convert_html_to_markdown(raw.text) = <<>> =>
              IF ResolvedPositions(raw) = {}
              THEN /\ EntriesOf(raw) = {}
                   /\ InSeq(raw.path, data.skipped_entry_paths)
              ELSE /\ EntriesOf(raw) # {}
                   /\ ~InSeq(raw.path, data.skipped_entry_paths)
    /\ \A i \in 1..Len(flat_entries) :
          flat_entries[i].text # <<>> \/ flat_entries[i].photos # <<>>

\* an entry whose markup converts to an empty text was imported on the
\* strength of its one resolved attachment
C11_Witness ==
    /\ pc = "done"
    /\ files[1].text = <<"<p>", "</p>">>
    /\ files[1].photos = <<"album", "a.jpg">>
    /\ Len(imported_entries) = 1
    /\ imported_entries[1].text = <<>>
    /\ imported_entries[1].photos = <<"/export/a.jpg">>

\* the files of the export by outcome
SucceededFiles == {i \in 1..Len(files) : Imported(files[i].path)}
FailedFiles == {i \in 1..Len(files) : InSeq(files[i].path, data.failed_entry_paths)}
SkippedFiles == {i \in 1..Len(files) : InSeq(files[i].path, data.skipped_entry_paths)}

\* the number of times a path occurs among the source paths of the entries
Occurrences(path, entries) ==
    Cardinality({i \in 1..Len(entries) : entries[i].source_path = path})

\* C12: attempted <= total always; when a run ends without a fatal
\* condition, attempted = total = succeeded + failed, the number of raw
\* entries = succeeded + failed + skipped, every entry is counted exactly
\* once in exactly one of the three, and the summary line reports these
\* three counts, the skipped attachments not being counted
C12_BatchAccounting ==
    /\ data.attempted_entry_count <= data.total_entry_count
    /\ pc = "done" =>
          /\ data.attempted_entry_count = data.total_entry_count
          /\ data.total_entry_count
                = Len(imported_entries) + Len(data.failed_entry_paths)
          /\ Len(files) = Len(imported_entries) + Len(data.failed_entry_paths)
                              + Len(data.skipped_entry_paths)
          /\ \A i \in 1..Len(files) :
                Occurrences(files[i].path, imported_entries)
                    + Count(files[i].path, data.failed_entry_paths)
                    + Count(files[i].path, data.skipped_entry_paths) = 1
          /\ report # None
          /\ report[1].summary =
                ToString(Cardinality(SucceededFiles)) \o " succeeded, "
                    \o ToString(Cardinality(FailedFiles)) \o " failed, "
                    \o ToString(Cardinality(SkippedFiles)) \o " skipped"

\* a run of three entries ended with one imported without its missing
\* attachment, one failed and one skipped
C12_Witness ==
    /\ pc = "done"
    /\ Len(files) = 3
    /\ report # None
    /\ report[1].summary = "1 succeeded, 1 failed, 1 skipped"
    /\ \E i \in SucceededFiles : InSeq(files[i].path, data.skipped_attachment_paths)

\* C13: the tool is invoked only once every raw entry is validated and the
\* total is fixed; the invocations follow the validated entries in the
\* validator's order, one each, none for a skipped entry; the lists and the
\* summary are reported only when the run is done, after an invocation for
\* every validated entry
C13_RunOrdering ==
    /\ tool_log # <<>> =>
          /\ pc # "validating"
          /\ loaded = Len(files)
          /\ data.total_entry_count = Len(flat_entries)
    /\ Len(tool_log) <= Len(flat_entries)
    /\ \A k \in 1..Len(tool_log) :
          /\ tool_log[k].source_path = flat_entries[k].source_path
          /\ ~InSeq(tool_log[k].source_path, data.skipped_entry_paths)
          /\ \A j \in 1..Len(tool_log) :
                tool_log[j].source_path = tool_log[k].source_path => j = k
    /\ report # None =>
          /\ pc = "done"
          /\ Len(tool_log) = Len(flat_entries)
    /\ pc = "done" => report # None

\* a run of three entries is done: the second was skipped, the tool was
\* invoked for the first and then for the third
C13_Witness ==
    /\ pc = "done"
    /\ Len(files) = 3
    /\ data.skipped_entry_paths = <<files[2].path>>
    /\ Len(tool_log) = 2
    /\ tool_log[1].source_path = files[1].path
    /\ tool_log[2].source_path = files[3].path
    /\ report # None

====
